---- MODULE Spec2Model ----
(***************************************************************************)
(* A model of json_validator_v1.0.0.6.py: the line reassembler             *)
(* (safe_file_reader), the field checkers (DictFieldChecker,               *)
(* DictTypeChecker, ListTypeChecker), the two shipped schemas and the      *)
(* driver (_validateFile).                                                 *)
(*                                                                         *)
(* Text is a sequence of one-character strings, so that strip(), int()     *)
(* and the last-character test of the reader are computed, not assumed.    *)
(* A decoded JSON value is a record whose field k is the name of its       *)
(* Python type: NoneType, bool, int, unicode, list, dict.  A dict keeps    *)
(* its items in iteration order.                                           *)
(***************************************************************************)
EXTENDS Integers, Sequences, FiniteSets, TLC

VARIABLES
    physical,         \* the physical lines f.next() hands out, in order
    atEnd,            \* what f.next() does once they are used up
    nread,            \* how many physical lines f.next() has handed out
    reader,           \* where the generator safe_file_reader is suspended
    yielded,          \* the logical lines the generator has yielded so far
    ingestion_fields, \* the name of the checker passed to _validateFile
    max_errors,       \* the max_errors argument
    probe,            \* the record whose JSON text is the line <<"R">>
    errors, warnings, lineCount, stoppedEarly,   \* locals of _validateFile
    validateErrors, warns,                       \* locals of _validateFile
    examined,         \* how many lines reached json.loads
    pc,               \* "loop" inside the for loop, "done" after return
    ret               \* the tuple _validateFile returned

vars == <<physical, atEnd, nread, reader, yielded, ingestion_fields, max_errors,
          probe, errors, warnings, lineCount, stoppedEarly, validateErrors,
          warns, examined, pc, ret>>

----------------------------------------------------------------------------
(* Characters and text *)

LS == "LS"      \* U+2028 LINE SEPARATOR
PS == "PS"      \* U+2029 PARAGRAPH SEPARATOR
NL == "NL"      \* the newline that ends a physical line

JSON_UNICODE_PROBLEMS == {LS, PS}

Whitespace == {" ", NL, LS, PS}

Digits == {"0", "1", "2", "3", "4", "5", "6", "7", "8", "9"}

RECURSIVE LStrip(_)
LStrip(s) == IF s # <<>> /\ Head(s) \in Whitespace THEN LStrip(Tail(s)) ELSE s

RECURSIVE RStrip(_)
RStrip(s) ==
    IF s # <<>> /\ s[Len(s)] \in Whitespace
    THEN RStrip(SubSeq(s, 1, Len(s) - 1))
    ELSE s

\* unicode.strip()
Strip(s) == RStrip(LStrip(s))

\* int(text) does not raise ValueError: optional blanks, optional sign, digits
IntLiteral(s) ==
    LET t == Strip(s)
        d == IF t # <<>> /\ Head(t) \in {"+", "-"} THEN Tail(t) ELSE t
    IN  d # <<>> /\ \A i \in 1..Len(d) : d[i] \in Digits

RECURSIVE Flatten(_)
Flatten(ss) == IF ss = <<>> THEN <<>> ELSE Head(ss) \o Flatten(Tail(ss))

----------------------------------------------------------------------------
(* Decoded values *)

VNone == [k |-> "NoneType"]
VBool(b) == [k |-> "bool", b |-> b]
VInt(n) == [k |-> "int", n |-> n]
VText(s) == [k |-> "unicode", s |-> s]
VList(xs) == [k |-> "list", elems |-> xs]
VDict(kvs) == [k |-> "dict", items |-> kvs]
KV(key, value) == [key |-> key, value |-> value]

Keys(d) == [i \in 1..Len(d.items) |-> d.items[i].key]
InSeq(x, s) == \E i \in 1..Len(s) : s[i] = x
HasKey(d, key) == InSeq(key, Keys(d))
Keys2(d) == {<<d.items[i].key, d.items[j].key>> : i, j \in 1..Len(d.items)}
Get(d, key) == d.items[CHOOSE i \in 1..Len(d.items) : d.items[i].key = key].value

\* dict.pop(key) on the working copy
Pop(d, key) == VDict(SelectSeq(d.items, LAMBDA kv : kv.key # key))

\* isinstance(value, type(example)); bool is a subclass of int
isinstance(value, ty) ==
    \/ ty = "object"
    \/ value.k = ty
    \/ ty = "int" /\ value.k = "bool"

\* a slip: the text is not trimmed before it is compared with ''
valid_entry_NoStrip(field) ==
    IF field.k = "unicode" THEN field.s # <<>> ELSE TRUE

valid_entry(field) ==
    IF field.k = "unicode" THEN Strip(field.s) # <<>> ELSE TRUE

\* int(candidate) raises TypeError or ValueError
IntRaises(value) ==
    CASE value.k = "unicode" -> ~IntLiteral(value.s)
      [] value.k \in {"int", "bool"} -> FALSE
      [] OTHER -> TRUE

----------------------------------------------------------------------------
(* Checkers.  An expected value is either an example instance of a Python  *)
(* type (unicode(), int(), bool(), object()) or a nested checker.          *)

Example(ty) == [c |-> "example", ty |-> ty]

Field(name, expectedValue, disallowedFields) ==
    [name |-> name, expectedValue |-> expectedValue,
     disallowedFields |-> disallowedFields]

DictFieldChecker(required, optional, historical) ==
    [c |-> "DictFieldChecker", required |-> required, optional |-> optional,
     historical |-> historical]

DictTypeChecker(expectedKeyTypeInstance, expectedValueTypeInstance) ==
    [c |-> "DictTypeChecker",
     expectedKeyTypeInstance |-> expectedKeyTypeInstance,
     expectedValueTypeInstance |-> expectedValueTypeInstance]

ListTypeChecker(expectedTypeInstance) ==
    [c |-> "ListTypeChecker", expectedTypeInstance |-> expectedTypeInstance]

IsFieldChecker(e) == e.c # "example"

topLevelType(checker) ==
    IF checker.c = "ListTypeChecker" THEN "list" ELSE "dict"

\* a slip: the historical fields are left out of the lookup
optional_dict_NoHistorical(checker) == checker.optional

\* self.optional_dict: the last Field of historical + optional with the name
optional_dict(checker) == checker.historical \o checker.optional

InOptionalDict(checker, name) ==
    \E i \in 1..Len(optional_dict(checker)) : optional_dict(checker)[i].name = name

OptionalField(checker, name) ==
    LET od == optional_dict(checker)
        last == CHOOSE i \in 1..Len(od) :
                    /\ od[i].name = name
                    /\ \A j \in (i + 1)..Len(od) : od[j].name # name
    IN  od[last]

\* the names DictTypeChecker._validate gives the two halves of an item
n_key == <<"k", "e", "y">>
n_value == <<"v", "a", "l", "u", "e">>

(* Messages, one record per message text *)

ExpectedTypeError(expected, found) ==
    [m |-> "Expected type", expected |-> expected, found |-> found]

FieldTypeError(fieldName, expected, found) ==
    [m |-> "Field had incorrect type", field |-> fieldName,
     expected |-> expected, found |-> found]

EntryTypeError(which, candidate, expected, found) ==
    [m |-> "dict entry had incorrect type", which |-> which,
     candidate |-> candidate, expected |-> expected, found |-> found]

ElementTypeError(index, expected, found) ==
    [m |-> "Element had incorrect type", index |-> index,
     expected |-> expected, found |-> found]

InField(fieldName, inner) ==
    [m |-> "Found error in field", field |-> fieldName, inner |-> inner]

InElement(index, inner) ==
    [m |-> "Found error in element at index", index |-> index, inner |-> inner]

MissingField(fieldName) ==
    [m |-> "Did not find required field", field |-> fieldName]

UnexpectedField(fieldName) ==
    [m |-> "Unexpected field found", field |-> fieldName]

NotAllowedTogether(fieldName, unallowed) ==
    [m |-> "Fields are not allowed to be attached to the same entity",
     field |-> fieldName, unallowed |-> unallowed]

InvalidEntryWarning(fieldName, candidate) ==
    [m |-> "was required, but found an invalid entry", field |-> fieldName,
     candidate |-> candidate]

Result(errs, wrns) == [errors |-> errs, warnings |-> wrns]

Join(a, b) == Result(a.errors \o b.errors, a.warnings \o b.warnings)

----------------------------------------------------------------------------
(* Validation *)

RECURSIVE validate(_, _, _)

\* a slip: no attempt to read the candidate as an int
FieldTypeCheck_NoCoercion(fieldName, candidateField, expectedValue) ==
    IF ~isinstance(candidateField, expectedValue.ty)
    THEN <<FieldTypeError(fieldName, expectedValue.ty, candidateField.k)>>
    ELSE <<>>

\* DictFieldChecker._check_field, the branch for an example instance
FieldTypeCheck(fieldName, candidateField, expectedValue) ==
    IF ~isinstance(candidateField, expectedValue.ty)
    THEN IF expectedValue.ty = "int"
         THEN IF IntRaises(candidateField)
              THEN <<FieldTypeError(fieldName, "int", candidateField.k)>>
              ELSE <<>>
         ELSE <<FieldTypeError(fieldName, expectedValue.ty, candidateField.k)>>
    ELSE <<>>

\* a slip: the loop stops at the first disallowed field it finds
DisallowedErrors_FirstOnly(validationField, candidateFields) ==
    LET hit == SelectSeq(validationField.disallowedFields,
                         LAMBDA unallowed : InSeq(unallowed, candidateFields))
    IN  IF hit = <<>> THEN <<>>
        ELSE <<NotAllowedTogether(validationField.name, hit[1])>>

\* DictFieldChecker._check_field, the loop over disallowedFields
DisallowedErrors(validationField, candidateFields) ==
    LET hit == SelectSeq(validationField.disallowedFields,
                         LAMBDA unallowed : InSeq(unallowed, candidateFields))
    IN  [i \in 1..Len(hit) |-> NotAllowedTogether(validationField.name, hit[i])]

\* DictFieldChecker._check_field, the test of a required entry
RequiredEntryWarnings(fieldName, candidateField, required) ==
    IF required /\ ~valid_entry(candidateField)
    THEN <<InvalidEntryWarning(fieldName, candidateField)>>
    ELSE <<>>

DictFieldChecker_check_field(fieldName, candidateField, validationField, candidateFields, required) ==
    LET expectedValue == validationField.expectedValue
        typed ==
            IF IsFieldChecker(expectedValue)
            THEN LET r == validate(expectedValue, candidateField, required)
                 IN  Result([i \in 1..Len(r.errors) |->
                                InField(fieldName, r.errors[i])],
                            r.warnings)
            ELSE Result(FieldTypeCheck(fieldName, candidateField, expectedValue),
                        <<>>)
    IN  Result(typed.errors
                   \o DisallowedErrors(validationField, candidateFields),
               typed.warnings
                   \o RequiredEntryWarnings(fieldName, candidateField, required))

\* a slip: break where the code has continue, so that the first missing
\* field ends the loop
RECURSIVE RequiredLoop_Break(_, _, _, _)
RequiredLoop_Break(checker, i, st, candidate_fields) ==
    IF i > Len(checker.required) THEN st
    ELSE LET field == checker.required[i]
             fieldName == field.name
         IN  IF ~HasKey(st.candidate, fieldName)
             THEN [st EXCEPT !.errors = Append(@, MissingField(fieldName))]
             ELSE LET r == DictFieldChecker_check_field(fieldName,
                               Get(st.candidate, fieldName), field,
                               candidate_fields, TRUE)
                  IN  RequiredLoop_Break(checker, i + 1,
                          [errors |-> st.errors \o r.errors,
                           warnings |-> st.warnings \o r.warnings,
                           candidate |-> Pop(st.candidate, fieldName)],
                          candidate_fields)

\* DictFieldChecker._validate, the loop over self.required from index i on;
\* st holds errors, warnings and the working copy of the candidate
RECURSIVE RequiredLoop(_, _, _, _)
RequiredLoop(checker, i, st, candidate_fields) ==
    IF i > Len(checker.required) THEN st
    ELSE LET field == checker.required[i]
             fieldName == field.name
         IN  IF ~HasKey(st.candidate, fieldName)
             THEN RequiredLoop(checker, i + 1,
                      [st EXCEPT !.errors = Append(@, MissingField(fieldName))],
                      candidate_fields)
             ELSE LET r == DictFieldChecker_check_field(fieldName,
                               Get(st.candidate, fieldName), field,
                               candidate_fields, TRUE)
                  IN  RequiredLoop(checker, i + 1,
                          [errors |-> st.errors \o r.errors,
                           warnings |-> st.warnings \o r.warnings,
                           candidate |-> Pop(st.candidate, fieldName)],
                          candidate_fields)

\* DictFieldChecker._validate, the loop over what is left of the candidate
RECURSIVE RemainingLoop(_, _, _, _)
RemainingLoop(checker, i, st, candidate_fields) ==
    IF i > Len(st.candidate.items) THEN st
    ELSE LET fieldName == st.candidate.items[i].key
         IN  IF InOptionalDict(checker, fieldName)
             THEN LET r == DictFieldChecker_check_field(fieldName,
                               Get(st.candidate, fieldName),
                               OptionalField(checker, fieldName),
                               candidate_fields, FALSE)
                  IN  RemainingLoop(checker, i + 1,
                          [st EXCEPT !.errors = @ \o r.errors,
                                     !.warnings = @ \o r.warnings],
                          candidate_fields)
             ELSE RemainingLoop(checker, i + 1,
                      [st EXCEPT !.errors = Append(@, UnexpectedField(fieldName))],
                      candidate_fields)

DictFieldChecker_validate(checker, originalCandidate, required) ==
    LET candidate_fields == Keys(originalCandidate)
        st0 == [errors |-> <<>>, warnings |-> <<>>,
                candidate |-> originalCandidate]
        st1 == RequiredLoop(checker, 1, st0, candidate_fields)
        st2 == RemainingLoop(checker, 1, st1, candidate_fields)
    IN  Result(st2.errors, st2.warnings)

\* DictTypeChecker._check_field for an example instance; expectedValue == int()
\* compares with 0, which int() and bool() both equal
DictTypeChecker_check_field(fieldName, candidateField, expectedValue, required) ==
    Result(IF ~isinstance(candidateField, expectedValue.ty)
           THEN IF expectedValue.ty \in {"int", "bool"}
                THEN IF IntRaises(candidateField)
                     THEN <<EntryTypeError(fieldName, candidateField, "int",
                                           candidateField.k)>>
                     ELSE <<>>
                ELSE <<EntryTypeError(fieldName, candidateField,
                                      expectedValue.ty, candidateField.k)>>
           ELSE <<>>,
           IF required /\ ~valid_entry(candidateField)
           THEN <<InvalidEntryWarning(fieldName, candidateField)>>
           ELSE <<>>)

\* DictTypeChecker._validate from item i on.  The shipped schemas give this
\* checker example instances only, and so does the model.
RECURSIVE DictTypeChecker_validate(_, _, _, _)
DictTypeChecker_validate(checker, candidateDict, required, i) ==
    IF i > Len(candidateDict.items) THEN Result(<<>>, <<>>)
    ELSE LET kv == candidateDict.items[i]
         IN  Join(Join(DictTypeChecker_check_field(n_key, VText(kv.key),
                           checker.expectedKeyTypeInstance, required),
                       DictTypeChecker_check_field(n_value, kv.value,
                           checker.expectedValueTypeInstance, required)),
                  DictTypeChecker_validate(checker, candidateDict, required, i + 1))

\* ListTypeChecker._validate, one element (pos counts from 0)
ListElementCheck(expectedTypeInstance, pos, elem, required) ==
    IF IsFieldChecker(expectedTypeInstance)
    THEN LET r == validate(expectedTypeInstance, elem, required)
         IN  Result([i \in 1..Len(r.errors) |-> InElement(pos, r.errors[i])],
                    r.warnings)
    ELSE IF ~isinstance(elem, expectedTypeInstance.ty)
         THEN Result(<<ElementTypeError(pos, expectedTypeInstance.ty, elem.k)>>,
                     <<>>)
         ELSE Result(<<>>, <<>>)

RECURSIVE ListTypeChecker_validate(_, _, _, _)
ListTypeChecker_validate(checker, candidateList, required, i) ==
    IF i > Len(candidateList.elems) THEN Result(<<>>, <<>>)
    ELSE Join(ListElementCheck(checker.expectedTypeInstance, i - 1,
                               candidateList.elems[i], required),
              ListTypeChecker_validate(checker, candidateList, required, i + 1))

\* FieldChecker.validate
validate(checker, candidate, required) ==
    IF ~isinstance(candidate, topLevelType(checker))
    THEN Result(<<ExpectedTypeError(topLevelType(checker), candidate.k)>>, <<>>)
    ELSE CASE checker.c = "DictFieldChecker" ->
                  DictFieldChecker_validate(checker, candidate, required)
           [] checker.c = "DictTypeChecker" ->
                  DictTypeChecker_validate(checker, candidate, required, 1)
           [] checker.c = "ListTypeChecker" ->
                  ListTypeChecker_validate(checker, candidate, required, 1)

----------------------------------------------------------------------------
(* The shipped schemas *)

n_type == <<"t", "y", "p", "e">>
n_id == <<"i", "d">>
n_name == <<"n", "a", "m", "e">>
n_artist == <<"a", "r", "t", "i", "s", "t">>
n_extras == <<"e", "x", "t", "r", "a", "s">>
n_takedown == <<"t", "a", "k", "e", "d", "o", "w", "n">>
n_regions == <<"r", "e", "g", "i", "o", "n", "s">>
n_regions_add == <<"r", "e", "g", "i", "o", "n", "s", "_", "a", "d", "d">>
n_regions_delete == <<"r", "e", "g", "i", "o", "n", "s", "_", "d", "e", "l", "e", "t", "e">>
n_ISRC == <<"I", "S", "R", "C">>
n_release_year == <<"r", "e", "l", "e", "a", "s", "e", "_", "y", "e", "a", "r">>
n_audio_url == <<"a", "u", "d", "i", "o", "_", "u", "r", "l">>
n_release == <<"r", "e", "l", "e", "a", "s", "e">>
n_published == <<"p", "u", "b", "l", "i", "s", "h", "e", "d">>

Unicode == Example("unicode")
Integer == Example("int")
Boolean == Example("bool")
Object == Example("object")

track_fields ==
    DictFieldChecker(
        <<Field(n_type, Unicode, <<>>),
          Field(n_id, Unicode, <<>>),
          Field(n_name, Unicode, <<>>),
          Field(n_artist,
                DictFieldChecker(<<Field(n_id, Unicode, <<>>),
                                   Field(n_name, Unicode, <<>>)>>, <<>>, <<>>),
                <<>>)>>,
        <<Field(n_extras, DictTypeChecker(Unicode, Object), <<>>),
          Field(n_takedown, Boolean, <<>>),
          Field(n_regions, ListTypeChecker(Unicode),
                <<n_regions_add, n_regions_delete>>),
          Field(n_regions_add, ListTypeChecker(Unicode), <<n_regions>>),
          Field(n_regions_delete, ListTypeChecker(Unicode), <<n_regions>>),
          Field(n_ISRC, Unicode, <<>>),
          Field(n_release_year, Integer, <<>>),
          Field(n_audio_url, Unicode, <<>>),
          Field(n_release,
                DictFieldChecker(<<Field(n_id, Unicode, <<>>),
                                   Field(n_name, Unicode, <<>>)>>,
                                 <<Field(n_release_year, Integer, <<>>)>>, <<>>),
                <<>>)>>,
        <<Field(n_published, Boolean, <<>>)>>)

artist_fields ==
    DictFieldChecker(
        <<Field(n_id, Unicode, <<>>),
          Field(n_name, Unicode, <<>>)>>,
        <<Field(n_extras, DictTypeChecker(Unicode, Object), <<>>),
          Field(n_regions, ListTypeChecker(Unicode),
                <<n_regions_add, n_regions_delete>>),
          Field(n_regions_add, ListTypeChecker(Unicode), <<n_regions>>),
          Field(n_regions_delete, ListTypeChecker(Unicode), <<n_regions>>),
          Field(n_takedown, Boolean, <<>>)>>,
        <<Field(n_published, Boolean, <<>>)>>)

\* Three more checkers built from the same classes, with an integer example:
\* a map and a list handed to _validateFile as they are, and an object whose
\* required field holds a map
int_map_checker == DictTypeChecker(Unicode, Integer)
int_list_checker == ListTypeChecker(Integer)
counts_fields ==
    DictFieldChecker(
        <<Field(n_id, Unicode, <<>>),
          Field(n_extras, DictTypeChecker(Unicode, Integer), <<>>)>>,
        <<Field(n_release_year, Integer, <<>>)>>,
        <<>>)

Checker(name) ==
    CASE name = "track" -> track_fields
      [] name = "artist" -> artist_fields
      [] name = "counts" -> counts_fields
      [] name = "int_map" -> int_map_checker
      [] name = "int_list" -> int_list_checker

----------------------------------------------------------------------------
(* The line reassembler *)

\* a slip: only one of the two separators is tested
EndsInProblem_OnlyLS(nextLine) == nextLine[Len(nextLine)] = LS

\* nextLine[-1] in JSON_UNICODE_PROBLEMS
EndsInProblem(nextLine) == nextLine[Len(nextLine)] \in JSON_UNICODE_PROBLEMS

\* what the generator does when f.next() raises StopIteration
AtStopIteration(nextLine, used) ==
    IF nextLine # <<>>
    THEN [out |-> "yield", line |-> nextLine, used |-> used, reader |-> "final"]
    ELSE [out |-> "stop", line |-> <<>>, used |-> used, reader |-> "closed"]

\* the while loop of safe_file_reader up to its next yield, return or raise;
\* f is what f.next() has still to hand out, used counts the calls that
\* returned a line
RECURSIVE ReadLoop(_, _, _, _)
ReadLoop(nextLine, f, end, used) ==
    IF f = <<>>
    THEN IF end = "UnicodeDecodeError"
         THEN [out |-> "raise", line |-> <<>>, used |-> used, reader |-> "closed"]
         ELSE AtStopIteration(nextLine, used)
    ELSE LET joined == nextLine \o Head(f)
         IN  IF EndsInProblem(joined)
             THEN ReadLoop(joined, Tail(f), end, used + 1)
             ELSE [out |-> "yield", line |-> joined, used |-> used + 1,
                   reader |-> "running"]

\* one resumption of the generator: after the yield of the loop it starts
\* over with an empty nextLine, after the yield at StopIteration it returns
safe_file_reader(rd, f, end) ==
    IF rd = "running"
    THEN ReadLoop(<<>>, f, end, 0)
    ELSE [out |-> "stop", line |-> <<>>, used |-> 0, reader |-> "closed"]

----------------------------------------------------------------------------
(* The decoder.  json.loads is a library: the model fixes its result on    *)
(* the texts its files are made of.  "R" stands for the JSON text of the   *)
(* record probe; "h" and "t" are the two halves of the text of an artist   *)
(* record cut inside its name, so that "h", separators, "t" is the text of *)
(* a record whose name holds the separators; anything else is not JSON.    *)

JSONWhitespace == {" ", NL}

RECURSIVE JSONStrip(_)
JSONStrip(s) ==
    IF s # <<>> /\ Head(s) \in JSONWhitespace THEN JSONStrip(Tail(s))
    ELSE IF s # <<>> /\ s[Len(s)] \in JSONWhitespace
         THEN JSONStrip(SubSeq(s, 1, Len(s) - 1))
         ELSE s

SplitRecord(inside) ==
    VDict(<<KV(n_id, VText(<<"A", "1">>)),
            KV(n_name, VText(<<"x">> \o inside \o <<"y">>))>>)

json_loads(line, record) ==
    LET body == JSONStrip(line)
        inside == SubSeq(body, 2, Len(body) - 1)
    IN  IF body = <<"R">> THEN [ok |-> TRUE, value |-> record]
        ELSE IF /\ Len(body) >= 2
                /\ body[1] = "h"
                /\ body[Len(body)] = "t"
                /\ \A i \in 1..Len(inside) : inside[i] \in {LS, PS}
             THEN [ok |-> TRUE, value |-> SplitRecord(inside)]
             ELSE [ok |-> FALSE, value |-> VNone]

----------------------------------------------------------------------------
(* The driver, _validateFile *)

InvalidJSON(n) == [m |-> "Found invalid JSON", line |-> n, detail |-> <<>>]

SchemaMismatch(n, errs) ==
    [m |-> "Found valid JSON which does not match expected schema",
     line |-> n, detail |-> errs]

InvalidUTF8(n) ==
    [m |-> "Found invalid UTF-8 characters", line |-> n, detail |-> <<>>]

\* a slip: the budget test lets one error too many in
BudgetReached_Late(budget, errs) == budget > 0 /\ Len(errs) > budget

\* max_errors > 0 and len(errors) >= max_errors
BudgetReached(budget, errs) == budget > 0 /\ Len(errs) >= budget

\* return errors, warnings, lineCount + 1, stoppedEarly
ReturnValue(errs, wrns, count, early) ==
    [errors |-> errs, warnings |-> wrns, linesProcessed |-> count + 1,
     stoppedEarly |-> early]

NotReturned == [returned |-> FALSE]

\* the next item of enumerate(reader)
Pull == safe_file_reader(reader, SubSeq(physical, nread + 1, Len(physical)), atEnd)

Take(r) ==
    /\ reader' = r.reader
    /\ nread' = nread + r.used
    /\ yielded' = IF r.out = "yield" THEN Append(yielded, r.line) ELSE yielded

\* an iteration that finds the budget used up: break, then return
BudgetStop ==
    /\ pc = "loop"
    /\ LET r == Pull
       IN  /\ r.out = "yield"
           /\ BudgetReached(max_errors, errors)
           /\ Take(r)
           /\ lineCount' = Len(yielded) - 1
           /\ stoppedEarly' = TRUE
           /\ pc' = "done"
           /\ ret' = ReturnValue(errors, warnings, Len(yielded) - 1, TRUE)
    /\ UNCHANGED <<physical, atEnd, ingestion_fields, max_errors, probe, errors,
                   warnings, validateErrors, warns, examined>>

\* an iteration whose line json.loads rejects: append, continue
DecodeFailure ==
    /\ pc = "loop"
    /\ LET r == Pull
       IN  /\ r.out = "yield"
           /\ ~BudgetReached(max_errors, errors)
           /\ ~json_loads(r.line, probe).ok
           /\ Take(r)
           /\ lineCount' = Len(yielded)
           /\ errors' = Append(errors, InvalidJSON(Len(yielded) + 1))
    /\ examined' = examined + 1
    /\ UNCHANGED <<physical, atEnd, ingestion_fields, max_errors, probe,
                   warnings, stoppedEarly, validateErrors, warns, pc, ret>>

\* an iteration whose line decodes: validate, append, collect the warnings
ValidateLine ==
    /\ pc = "loop"
    /\ LET r == Pull
           candidate == json_loads(r.line, probe)
           v == validate(Checker(ingestion_fields), candidate.value, TRUE)
       IN  /\ r.out = "yield"
           /\ ~BudgetReached(max_errors, errors)
           /\ candidate.ok
           /\ Take(r)
           /\ lineCount' = Len(yielded)
           /\ validateErrors' = v.errors
           /\ warns' = v.warnings
           /\ errors' = IF Len(v.errors) > 0
                        THEN Append(errors,
                                    SchemaMismatch(Len(yielded) + 1, v.errors))
                        ELSE errors
           /\ warnings' = warnings \o v.warnings
    /\ examined' = examined + 1
    /\ UNCHANGED <<physical, atEnd, ingestion_fields, max_errors, probe,
                   stoppedEarly, pc, ret>>

\* the reader raises UnicodeDecodeError: append, return
EncodingFailure ==
    /\ pc = "loop"
    /\ LET r == Pull
       IN  /\ r.out = "raise"
           /\ Take(r)
           /\ errors' = Append(errors, InvalidUTF8(lineCount + 1))
           /\ ret' = ReturnValue(errors', warnings, lineCount, stoppedEarly)
    /\ pc' = "done"
    /\ UNCHANGED <<physical, atEnd, ingestion_fields, max_errors, probe,
                   warnings, lineCount, stoppedEarly, validateErrors, warns,
                   examined>>

\* the reader is exhausted: return
EndOfStream ==
    /\ pc = "loop"
    /\ LET r == Pull
       IN  /\ r.out = "stop"
           /\ Take(r)
    /\ pc' = "done"
    /\ ret' = ReturnValue(errors, warnings, lineCount, stoppedEarly)
    /\ UNCHANGED <<physical, atEnd, ingestion_fields, max_errors, probe, errors,
                   warnings, lineCount, stoppedEarly, validateErrors, warns,
                   examined>>

Next ==
    \/ BudgetStop
    \/ DecodeFailure
    \/ ValidateLine
    \/ EncodingFailure
    \/ EndOfStream

----------------------------------------------------------------------------
(* Inputs *)

MaxFileLines == 4     \* physical lines of a file of InitFile
MaxPhysLines == 3     \* physical lines of a file of InitReader
MaxBudget == 2        \* the largest max_errors
MaxTail == 1          \* lines after the record's line in InitValidate

SeqsUpTo(S, n) == UNION {[1..k -> S] : k \in 0..n}

Absent == [k |-> "absent"]

\* the dict of the entries that are present, in the order given or reversed
MkDict(entries, reversed) ==
    LET there == SelectSeq(entries, LAMBDA kv : kv.value # Absent)
        n == Len(there)
    IN  VDict(IF reversed THEN [i \in 1..n |-> there[n + 1 - i]] ELSE there)

T(s) == VText(s)
US == VList(<<T(<<"U", "S">>)>>)

GoodArtist == VDict(<<KV(n_id, T(<<"A", "1">>)), KV(n_name, T(<<"x">>))>>)
BlankNameArtist == VDict(<<KV(n_id, T(<<"A", "1">>)), KV(n_name, T(<<>>)),
                           KV(n_published, VBool(TRUE))>>)
NoNameArtist == VDict(<<KV(n_id, T(<<"A", "1">>))>>)

Start ==
    /\ nread = 0
    /\ reader = "running"
    /\ yielded = <<>>
    /\ errors = <<>>
    /\ warnings = <<>>
    /\ lineCount = 0
    /\ stoppedEarly = FALSE
    /\ validateErrors = <<>>
    /\ warns = <<>>
    /\ examined = 0
    /\ pc = "loop"
    /\ ret = NotReturned

EndKinds == {"StopIteration", "UnicodeDecodeError"}

(* Files of whole lines: a record, text that is not JSON, and the two     *)
(* halves of a record that a separator split                              *)
FileLines == {<<"R", NL>>, <<"X", NL>>, <<"h", LS>>, <<"t", NL>>}

InitFile ==
    /\ physical \in SeqsUpTo(FileLines, MaxFileLines)
    /\ atEnd \in EndKinds
    /\ ingestion_fields = "artist"
    /\ max_errors \in {-1} \cup 0..MaxBudget
    /\ probe \in {GoodArtist, BlankNameArtist, NoNameArtist}
    /\ Start

(* Files of every mix of line ends: each physical line is a body and the  *)
(* line end that closed it; the last line may lack its line end           *)
ReaderBodies == {<<>>, <<"R">>, <<"h">>, <<"t">>}
LineEnds == {NL, LS, PS}
ReaderLines == {b \o <<e>> : b \in ReaderBodies, e \in LineEnds}

DropLineEnd(lines) ==
    LET n == Len(lines)
    IN  IF n > 0 /\ Len(lines[n]) > 1
        THEN [lines EXCEPT ![n] = SubSeq(@, 1, Len(@) - 1)]
        ELSE lines

InitReader ==
    /\ \E lines \in SeqsUpTo(ReaderLines, MaxPhysLines), open \in BOOLEAN :
           physical = IF open THEN DropLineEnd(lines) ELSE lines
    /\ atEnd \in EndKinds
    /\ ingestion_fields = "artist"
    /\ max_errors \in {-1, 1}
    /\ probe = NoNameArtist
    /\ Start

(* One record under test, in the first line of a short file *)

TextSamples ==
    {<<"4", "2">>, <<"1">>, <<"a", "b", "c">>, <<>>, <<" ", "7", " ">>,
     <<"-", "3">>, <<"4", "x">>, <<"+">>}

IntValues == {T(s) : s \in TextSamples} \cup {VInt(5), VBool(TRUE), VNone}

Maybe(S) == {Absent} \cup S

ArtistDict == VDict(<<KV(n_id, T(<<"A", "1">>)), KV(n_name, T(<<"B">>))>>)

ArtistProbes ==
    {MkDict(<<KV(n_id, a), KV(n_name, b), KV(n_regions, c),
              KV(n_regions_add, d), KV(n_regions_delete, e),
              KV(n_published, f), KV(<<"f", "o", "o">>, g)>>, o) :
        a \in Maybe({T(<<"A", "1">>), T(<<>>), VInt(7)}),
        b \in Maybe({T(<<"x">>), T(<<" ">>)}),
        c \in Maybe({US, T(<<"U", "S">>)}),
        d \in Maybe({US}),
        e \in Maybe({US}),
        f \in Maybe({VBool(TRUE)}),
        g \in Maybe({VInt(1)}),
        o \in BOOLEAN}
    \cup {VNone, VList(<<>>)}

TrackProbes ==
    {MkDict(<<KV(n_type, a), KV(n_id, T(<<"T", "1">>)), KV(n_name, b),
              KV(n_artist, c), KV(n_release, d), KV(n_ISRC, e),
              KV(n_regions, f), KV(n_regions_add, g), KV(n_extras, h)>>,
            FALSE) :
        a \in Maybe({T(<<"t", "r", "a", "c", "k">>)}),
        b \in Maybe({T(<<"S">>), T(<<>>)}),
        c \in Maybe({ArtistDict, VDict(<<KV(n_id, T(<<"A", "1">>))>>),
                     VDict(<<KV(n_name, T(<<" ">>)), KV(n_id, T(<<"A", "1">>))>>),
                     T(<<"B">>)}),
        d \in Maybe({VDict(<<KV(n_id, T(<<"R">>)), KV(n_name, T(<<"N">>)),
                             KV(n_release_year, VInt(1999))>>),
                     VDict(<<KV(n_id, T(<<"R">>)), KV(n_name, T(<<>>)),
                             KV(n_release_year, T(<<"1">>))>>)}),
        e \in Maybe({T(<<>>)}),
        f \in Maybe({US}),
        g \in Maybe({US}),
        h \in Maybe({VDict(<<KV(<<>>, VNone)>>)})}
    \cup {MkDict(<<KV(n_type, T(<<"t">>)), KV(n_id, T(<<"T", "1">>)),
                   KV(n_name, T(<<"S">>)), KV(n_artist, ArtistDict),
                   KV(n_release_year, i)>>, o) :
             i \in IntValues, o \in BOOLEAN}

CountsProbes ==
    {MkDict(<<KV(n_id, a), KV(n_extras, b), KV(n_release_year, c)>>, FALSE) :
        a \in {T(<<"A", "1">>), T(<<>>)},
        b \in Maybe({VDict(<<KV(<<"a">>, v)>>) : v \in IntValues}
                    \cup {VDict(<<KV(<<>>, VInt(5))>>)}),
        c \in Maybe({VInt(7), T(<<"4", "2">>), T(<<"x">>)})}

IntMapProbes ==
    {VDict(<<KV(<<"a">>, v)>>) : v \in IntValues}
    \cup {VDict(<<KV(<<"a">>, v), KV(<<>>, w)>>) : v, w \in IntValues}

IntListProbes == {VList(xs) : xs \in SeqsUpTo(IntValues, 2)}

Probes(name) ==
    CASE name = "track" -> TrackProbes
      [] name = "artist" -> ArtistProbes
      [] name = "counts" -> CountsProbes
      [] name = "int_map" -> IntMapProbes
      [] name = "int_list" -> IntListProbes

InitValidate ==
    /\ ingestion_fields \in {"track", "artist", "counts", "int_map", "int_list"}
    /\ probe \in Probes(ingestion_fields)
    /\ \E n \in 0..MaxTail : physical = <<<<"R", NL>>>> \o [i \in 1..n |-> <<"X", NL>>]
    /\ atEnd \in EndKinds
    /\ max_errors \in {-1, 1}
    /\ Start

Spec == InitFile /\ [][Next]_vars

SpecValidate == InitValidate /\ [][Next]_vars

SpecReader == InitReader /\ [][Next]_vars

----------------------------------------------------------------------------
(* What a whole file holds, read off the file and not off the run *)

\* the logical lines the reassembler yields when it is pulled to its end
RECURSIVE AllLogical(_, _, _)
AllLogical(rd, f, end) ==
    LET r == safe_file_reader(rd, f, end)
    IN  IF r.out = "yield"
        THEN <<r.line>> \o AllLogical(r.reader, SubSeq(f, r.used + 1, Len(f)), end)
        ELSE <<>>

LogicalLines == AllLogical("running", physical, atEnd)

\* the line fails to decode, or decodes to a record with a schema error
TriggersError(line) ==
    LET d == json_loads(line, probe)
    IN  \/ ~d.ok
        \/ validate(Checker(ingestion_fields), d.value, TRUE).errors # <<>>

ErrorLineCount ==
    Cardinality({i \in 1..Len(LogicalLines) : TriggersError(LogicalLines[i])})

Returned == pc = "done"

\* the run ended in the except clause for UnicodeDecodeError
ReaderRaised ==
    /\ Returned
    /\ atEnd = "UnicodeDecodeError"
    /\ ~ret.stoppedEarly

LastChar(s) == s[Len(s)]

----------------------------------------------------------------------------
(* C1: with max_errors = N > 0 and a file of more than N lines that each   *)
(* trigger an error, _validateFile returns exactly N errors, stoppedEarly  *)
(* true, and a linesProcessed equal to the number of lines it decoded, the *)
(* line at which the budget check fired not counted.                       *)
C1_ErrorBudget ==
    (Returned /\ max_errors > 0 /\ ErrorLineCount > max_errors) =>
        /\ Len(ret.errors) = max_errors
        /\ ret.stoppedEarly
        /\ ret.linesProcessed = examined
        /\ Len(yielded) = examined + 1

C1_Witness ==
    /\ Returned
    /\ max_errors = 2
    /\ ErrorLineCount > max_errors
    /\ ret.stoppedEarly
    /\ ret.linesProcessed = 3
    /\ Len(ret.warnings) = 1

(* C2: the reassembler never ends a logical line at a physical line whose  *)
(* last character is U+2028 or U+2029 while another physical line follows; *)
(* the logical lines, concatenated, are the physical lines read,           *)
(* concatenated; and at the end of the stream a pending fragment has been  *)
(* yielded, so that nothing of the file is missing.                        *)
C2_LineReassembly ==
    /\ \A i \in 1..Len(yielded) :
           \E j \in 1..nread :
               /\ Flatten(SubSeq(yielded, 1, i)) = Flatten(SubSeq(physical, 1, j))
               /\ LastChar(physical[j]) \in {LS, PS} => j = Len(physical)
    /\ atEnd = "StopIteration" =>
           Flatten(yielded) = Flatten(SubSeq(physical, 1, nread))
    /\ (Returned /\ atEnd = "StopIteration" /\ ~ret.stoppedEarly) =>
           /\ nread = Len(physical)
           /\ Flatten(yielded) = Flatten(physical)

C2_Witness ==
    /\ Returned
    /\ atEnd = "StopIteration"
    /\ ~ret.stoppedEarly
    /\ Len(physical) = 3
    /\ Len(yielded) = 2
    /\ yielded[1] = physical[1] \o physical[2]
    /\ LastChar(yielded[2]) \in {LS, PS}

(* What it is for a value to match a schema, said without the checkers'  *)
(* code: the value has the kind the schema declares.                      *)

KindIs(ty, value) == ty = "object" \/ value.k = ty

RequiredNames(checker) == {checker.required[i].name : i \in 1..Len(checker.required)}

\* the fields a schema declares; their names are distinct in every schema here
DeclaredFields(checker) ==
    checker.required \o checker.optional \o checker.historical

IsDeclared(checker, name) ==
    \E i \in 1..Len(DeclaredFields(checker)) : DeclaredFields(checker)[i].name = name

\* the Field that declares the key name
DeclaredField(checker, name) ==
    DeclaredFields(checker)[CHOOSE i \in 1..Len(DeclaredFields(checker)) :
                                DeclaredFields(checker)[i].name = name]

RECURSIVE Conforms(_, _)
Conforms(expected, value) ==
    CASE expected.c = "example" -> KindIs(expected.ty, value)
      [] expected.c = "ListTypeChecker" ->
            /\ value.k = "list"
            /\ \A i \in 1..Len(value.elems) :
                   Conforms(expected.expectedTypeInstance, value.elems[i])
      [] expected.c = "DictTypeChecker" ->
            /\ value.k = "dict"
            /\ \A i \in 1..Len(value.items) :
                   /\ Conforms(expected.expectedKeyTypeInstance,
                               VText(value.items[i].key))
                   /\ Conforms(expected.expectedValueTypeInstance,
                               value.items[i].value)
      [] expected.c = "DictFieldChecker" ->
            /\ value.k = "dict"
            /\ \A name \in RequiredNames(expected) : HasKey(value, name)
            /\ \A i \in 1..Len(value.items) :
                   LET name == value.items[i].key
                   IN  /\ IsDeclared(expected, name)
                       /\ Conforms(DeclaredField(expected, name).expectedValue,
                                   value.items[i].value)
                       /\ \A j \in 1..Len(DeclaredField(expected, name).disallowedFields) :
                              ~HasKey(value,
                                      DeclaredField(expected, name).disallowedFields[j])

IsBlankText(value) == value.k = "unicode" /\ Strip(value.s) = <<>>

(* The places of a value that matches its schema where a text is blank    *)
(* and validation is told the entry is required: a required field of the  *)
(* record or of an object nested in it, and a key or a value of a map     *)
(* that a required field holds.  A place is the path of names to it.      *)
RECURSIVE BlankPlaces(_, _, _)
BlankPlaces(expected, value, required) ==
    CASE expected.c = "example" ->
            IF required /\ IsBlankText(value) THEN {<<>>} ELSE {}
      [] expected.c = "ListTypeChecker" ->
            IF IsFieldChecker(expected.expectedTypeInstance)
            THEN UNION {{<<<<"#">>>> \o q :
                            q \in BlankPlaces(expected.expectedTypeInstance,
                                              value.elems[i], required)} :
                        i \in 1..Len(value.elems)}
            ELSE {}
      [] expected.c = "DictTypeChecker" ->
            UNION {{<<value.items[i].key, n_key>> :
                        q \in BlankPlaces(expected.expectedKeyTypeInstance,
                                          VText(value.items[i].key), required)}
                   \cup {<<value.items[i].key, n_value>> :
                        q \in BlankPlaces(expected.expectedValueTypeInstance,
                                          value.items[i].value, required)} :
                   i \in 1..Len(value.items)}
      [] expected.c = "DictFieldChecker" ->
            UNION {LET name == value.items[i].key
                   IN  {<<name>> \o q :
                            q \in BlankPlaces(
                                      DeclaredField(expected, name).expectedValue,
                                      value.items[i].value,
                                      name \in RequiredNames(expected))} :
                   i \in 1..Len(value.items)}

Schema == Checker(ingestion_fields)

\* the first line of the file, the record under test, has been validated
Validated == examined >= 1

Count(s, x) == Cardinality({i \in 1..Len(s) : s[i] = x})

SubsetOfSeq(part, whole) == \A i \in 1..Len(part) : InSeq(part[i], whole)

(* C3, as amended: a record that matches its object schema exactly, and    *)
(* in which no text that validation is told is required is empty after     *)
(* trimming, validates with no error and no warning.                       *)
C3_ExactMatchIsClean ==
    (/\ Validated
     /\ Schema.c = "DictFieldChecker"
     /\ Conforms(Schema, probe)
     /\ BlankPlaces(Schema, probe, TRUE) = {}) =>
        /\ validateErrors = <<>>
        /\ warns = <<>>

C3_Witness ==
    /\ Validated
    /\ ingestion_fields = "track"
    /\ Conforms(Schema, probe)
    /\ BlankPlaces(Schema, probe, TRUE) = {}
    /\ HasKey(probe, n_release)
    /\ HasKey(probe, n_ISRC)
    /\ HasKey(probe, n_extras)
    /\ HasKey(probe, n_regions)

(* C3, as the claim has it: every record that matches its schema exactly   *)
(* validates with no error and no warning.                                 *)
C3_Original ==
    (/\ Validated
     /\ Schema.c = "DictFieldChecker"
     /\ Conforms(Schema, probe)) =>
        /\ validateErrors = <<>>
        /\ warns = <<>>

(* C4: for a candidate that lacks a required field F, the errors hold      *)
(* exactly one message that names F as missing, and the other fields are   *)
(* checked all the same: what the check of every required field that is    *)
(* present and of every remaining key finds is in the same result.         *)
C4_MissingFieldNoShortCircuit ==
    (/\ Validated
     /\ Schema.c = "DictFieldChecker"
     /\ probe.k = "dict"
     /\ \E name \in RequiredNames(Schema) : ~HasKey(probe, name)) =>
        /\ \A name \in RequiredNames(Schema) :
               Count(validateErrors, MissingField(name)) =
                   IF HasKey(probe, name) THEN 0 ELSE 1
        /\ \A i \in 1..Len(probe.items) :
               LET name == probe.items[i].key
               IN  IF IsDeclared(Schema, name)
                   THEN LET found == DictFieldChecker_check_field(name,
                                         probe.items[i].value,
                                         DeclaredField(Schema, name),
                                         Keys(probe),
                                         name \in RequiredNames(Schema))
                        IN  /\ SubsetOfSeq(found.errors, validateErrors)
                            /\ SubsetOfSeq(found.warnings, warns)
                   ELSE Count(validateErrors, UnexpectedField(name)) = 1

C4_Witness ==
    /\ Validated
    /\ ingestion_fields = "track"
    /\ probe.k = "dict"
    /\ ~HasKey(probe, n_type)
    /\ Count(validateErrors, MissingField(n_type)) = 1
    /\ Count(validateErrors, FieldTypeError(n_artist, "dict", "unicode")) = 0
    /\ \E i \in 1..Len(validateErrors) :
           validateErrors[i] = InField(n_artist, MissingField(n_name))
    /\ \E i \in 1..Len(validateErrors) :
           validateErrors[i] = NotAllowedTogether(n_regions_add, n_regions)
    /\ Len(warns) = 2

\* the co-occurrence errors of the record itself, nested ones apart
CoOccurrenceErrors ==
    SelectSeq(validateErrors,
              LAMBDA e : e.m = "Fields are not allowed to be attached to the same entity")

\* a declared field that is present with a name it disallows present too
ViolatedPairs ==
    {pair \in Keys2(probe) :
        /\ IsDeclared(Schema, pair[1])
        /\ InSeq(pair[2], DeclaredField(Schema, pair[1]).disallowedFields)}

(* C5, as amended: for a record in which a field and one of its            *)
(* disallowedFields are both present, validation produces exactly one      *)
(* co-occurrence error for each pair (field under check, disallowed name), *)
(* and so two for a pair that the schema declares in both directions.      *)
C5_OneErrorPerDeclaredPair ==
    (/\ Validated
     /\ Schema.c = "DictFieldChecker"
     /\ probe.k = "dict") =>
        /\ \A pair \in ViolatedPairs :
               Count(validateErrors, NotAllowedTogether(pair[1], pair[2])) = 1
        /\ Len(CoOccurrenceErrors) = Cardinality(ViolatedPairs)

C5_Witness ==
    /\ Validated
    /\ ingestion_fields = "artist"
    /\ probe.k = "dict"
    /\ HasKey(probe, n_regions)
    /\ HasKey(probe, n_regions_add)
    /\ HasKey(probe, n_regions_delete)
    /\ Len(CoOccurrenceErrors) = 4

(* C5, as the claim has it: exactly one co-occurrence error for each       *)
(* violated pair of fields, whichever of the two is the field under check. *)
C5_Original ==
    (/\ Validated
     /\ Schema.c = "DictFieldChecker"
     /\ probe.k = "dict") =>
        \A pair \in ViolatedPairs :
            Count(validateErrors, NotAllowedTogether(pair[1], pair[2]))
                + Count(validateErrors, NotAllowedTogether(pair[2], pair[1])) = 1

\* the number of items of s that are text that int() rejects
BadIntTexts(s) ==
    Cardinality({i \in 1..Len(s) : s[i].k = "unicode" /\ ~IntLiteral(s[i].s)})

AllText(s) == \A i \in 1..Len(s) : s[i].k = "unicode"

(* C6: where an integer is expected, a text in an object field or in a     *)
(* map value gives no error when int() parses it and exactly one type      *)
(* error when it does not, while in a list every text element gives a      *)
(* type error, parseable or not.                                           *)
C6_IntegerCoercion ==
    Validated =>
        /\ (ingestion_fields = "track" /\ probe.k = "dict"
                /\ HasKey(probe, n_release_year)
                /\ Get(probe, n_release_year).k = "unicode") =>
               Len(SelectSeq(validateErrors, LAMBDA e : e.field = n_release_year))
                   = BadIntTexts(<<Get(probe, n_release_year)>>)
        /\ (ingestion_fields = "track" /\ probe.k = "dict"
                /\ HasKey(probe, n_release_year)
                /\ Get(probe, n_release_year).k = "unicode"
                /\ ~IntLiteral(Get(probe, n_release_year).s)) =>
               InSeq(FieldTypeError(n_release_year, "int", "unicode"),
                     validateErrors)
        /\ (ingestion_fields = "int_map"
                /\ AllText([i \in 1..Len(probe.items) |-> probe.items[i].value])) =>
               /\ Len(validateErrors) =
                      BadIntTexts([i \in 1..Len(probe.items) |-> probe.items[i].value])
               /\ \A i \in 1..Len(validateErrors) :
                      /\ validateErrors[i].m = "dict entry had incorrect type"
                      /\ validateErrors[i].which = n_value
                      /\ validateErrors[i].expected = "int"
        /\ (ingestion_fields = "int_list" /\ AllText(probe.elems)) =>
               validateErrors =
                   [i \in 1..Len(probe.elems) |->
                       ElementTypeError(i - 1, "int", "unicode")]

C6_Witness ==
    /\ Validated
    /\ ingestion_fields = "int_list"
    /\ probe = VList(<<T(<<"1">>), T(<<"a", "b", "c">>)>>)
    /\ Len(validateErrors) = 2

(* C7: a record that matches its schema but for one required text field   *)
(* that is empty after trimming validates with no error and exactly one    *)
(* warning, which names that field; the driver appends nothing to errors   *)
(* for its line, so the warning takes nothing from the error budget.       *)
C7_BlankRequiredIsWarning ==
    (/\ Validated
     /\ Schema.c = "DictFieldChecker"
     /\ Conforms(Schema, probe)
     /\ Cardinality(BlankPlaces(Schema, probe, TRUE)) = 1) =>
        LET place == CHOOSE q \in BlankPlaces(Schema, probe, TRUE) : TRUE
        IN  /\ validateErrors = <<>>
            /\ Len(warns) = 1
            /\ warns[1].m = "was required, but found an invalid entry"
            /\ warns[1].field = place[Len(place)]
            /\ IsBlankText(warns[1].candidate)
            /\ warnings = warns
            /\ \A i \in 1..Len(errors) :
                   errors[i].line = 1 => errors[i].m = "Found invalid UTF-8 characters"
            /\ Len(errors) = examined - 1 + IF ReaderRaised THEN 1 ELSE 0
            /\ (Returned /\ Len(physical) > 1) => examined > 1

C7_Witness ==
    /\ Validated
    /\ ingestion_fields = "artist"
    /\ Conforms(Schema, probe)
    /\ BlankPlaces(Schema, probe, TRUE) = {<<n_name>>}
    /\ HasKey(probe, n_published)
    /\ max_errors = 1
    /\ examined = 2
    /\ ret # NotReturned
    /\ ret.stoppedEarly = FALSE
    /\ Len(ret.warnings) = 1
    /\ Len(ret.errors) = 1

(* C8: when the read of the next logical line fails with an encoding       *)
(* error, _validateFile appends exactly one error, the last of errors,     *)
(* that carries the 1-based number of the logical line whose read failed,  *)
(* examines no further line and returns stoppedEarly false.                *)
C8_EncodingFailureIsFatal ==
    ReaderRaised =>
        /\ ret.errors # <<>>
        /\ ret.errors[Len(ret.errors)] = InvalidUTF8(Len(yielded) + 1)
        /\ \A i \in 1..(Len(ret.errors) - 1) :
               ret.errors[i].m # "Found invalid UTF-8 characters"
        /\ examined = Len(yielded)
        /\ ~ret.stoppedEarly

(* C9: errors holds at most one entry for each examined line, and the line *)
(* numbers of its successive entries are strictly increasing.              *)
C9_ErrorsInLineOrder ==
    \A i, j \in 1..Len(errors) : i < j => errors[i].line < errors[j].line

(* C10: a run that ends at the end of the stream, with no budget stop and  *)
(* no encoding failure, returns a linesProcessed equal to the number of    *)
(* logical lines the reassembler yielded, 0 for the empty stream.          *)
C10_LinesProcessedAtEof ==
    (Returned /\ atEnd = "StopIteration" /\ ~ret.stoppedEarly) =>
        ret.linesProcessed = Len(yielded)

(* C11: with a budget max_errors = N > 0, errors never holds more than N    *)
(* entries, in any state of _validateFile and in the result it returns,    *)
(* whatever the stream holds and however it ends, an encoding failure of   *)
(* the stream included.                                                    *)
C11_BudgetIsHardCap ==
    max_errors > 0 =>
        /\ Len(errors) <= max_errors
        /\ Returned => Len(ret.errors) <= max_errors

====
